---- MODULE Spec2Model ----
(***************************************************************************)
(* XAM info exports of xenia (src/xenia/kernel/xam/xam_info.cc):           *)
(* XamEnumerate over an XEnumerator, the loader launch-data calls, the     *)
(* string-producing calls, XamAlloc / XamFree and XamGetOnlineSchema.      *)
(*                                                                         *)
(* Every export is one action that models the whole handler.  The guest    *)
(* cells a call may write (the buffer, *items_returned, *size_ptr, the     *)
(* XAM_OVERLAPPED fields) are handed to each call holding GuestPrior /     *)
(* Untouched, so that what the call wrote can be told from what it left    *)
(* alone.  Asserts (assert_true, assert_always) are compiled out, as in a  *)
(* release build: the handler goes on past them.  For calls made by two    *)
(* guest threads at once, XamEnumerate and XamGetOnlineSchema are modelled *)
(* a second time, one action per access to the state the threads share.    *)
(***************************************************************************)
EXTENDS Integers, Sequences, FiniteSets, TLC

VARIABLES
  e,               \* the XEnumerator behind EnumHandle
  loader_data,     \* XamModule::loader_data(): launch_data, launch_data_present
  call,            \* the most recent export call and its arguments
  ret,             \* the value that call returned
  buffer,          \* guest memory at the buffer pointer of that call
  items_returned,  \* guest cell *items_returned of that call
  size_out,        \* guest cell *size_ptr of that call
  overlapped,      \* guest XAM_OVERLAPPED of that call
  completions,     \* how often that call completed its overlapped request
  status,          \* the local `result` of XamEnumerate in that call
  written,         \* history: the items found in the buffers, in delivery order
  reported,        \* history: sum of the item counts the calls reported
  set_called,      \* history: some XamLoaderSetLaunchData call has happened
  set_bytes,       \* history: the bytes of the most recent XamLoaderSetLaunchData
  str_call,        \* the most recent string-producing call and its source string
  str_buf,         \* guest memory, in 16-bit units, at the buffer of that call
  heap,            \* the system heap: the blocks allocated, address |-> size
  heap_call,       \* the most recent XamAlloc / XamFree call and its outcome
  thr,             \* guest threads inside XamEnumerate: position and locals
  schema_guest,    \* the function-local static of XamGetOnlineSchema
  schema_thr       \* guest threads inside XamGetOnlineSchema: position and locals

vars == <<e, loader_data, call, ret, buffer, items_returned, size_out,
          overlapped, completions, status, written, reported,
          set_called, set_bytes, str_call, str_buf, heap, heap_call,
          thr, schema_guest, schema_thr>>

enum_vars == <<e, written, reported>>
loader_vars == <<loader_data, set_called, set_bytes>>
call_vars == <<call, ret, buffer, items_returned, size_out, overlapped,
               completions, status>>
string_vars == <<str_call, str_buf>>
heap_vars == <<heap, heap_call>>
thread_vars == <<thr>>
schema_vars == <<schema_guest, schema_thr>>

----------------------------------------------------------------------------
(* Bounds of the model. *)

MaxItemSize == 2
MaxItemCount == 3
MaxItemsPerEnumerate == 3
MaxBufferLength == 4
MaxLaunchLen == 2
MaxByte == 2

Max2(a, b) == IF a >= b THEN a ELSE b
Min2(a, b) == IF a <= b THEN a ELSE b

\* Guest memory modelled behind a buffer pointer: enough for everything an
\* enumerator or the launch data can hold, whatever length the caller declares.
MemBytes == Max2(Max2(MaxBufferLength, MaxItemCount * MaxItemSize), MaxLaunchLen) + 1

\* Content of a guest byte no call has written; item and launch bytes are >= 1.
Untouched == 0
\* Content of a guest dword no call has written (0xFFFFFFFF read as int32).
GuestPrior == 0 - 1

FreshBuffer == [i \in 0..(MemBytes - 1) |-> Untouched]
Touched(buf) == {i \in DOMAIN buf : buf[i] # Untouched}

----------------------------------------------------------------------------
(* Status codes (xenia/xbox.h, X_RESULT_FROM_WIN32 of the Win32 codes). *)

X_ERROR_SUCCESS == 0
X_ERROR_INVALID_HANDLE == 6
X_ERROR_NO_MORE_FILES == 18
X_ERROR_INVALID_PARAMETER == 87
X_ERROR_INSUFFICIENT_BUFFER == 122
X_ERROR_IO_PENDING == 997
X_ERROR_NOT_FOUND == 1168
X_ERROR_FUNCTION_FAILED == 1627

\* X_HRESULT_FROM_WIN32(x): x itself when (int32)x <= 0, else
\* (x & 0xFFFF) | (7 << 16) | 0x80000000.  The 32-bit pattern is kept as the
\* int32 it reads as, e.g. 0x80070006 is -2147024890.
X_HRESULT_FROM_WIN32(x) ==
  IF x <= 0 THEN x ELSE ((x % 65536) + 7 * 65536 - 2147483647) - 1

----------------------------------------------------------------------------
(* Object table and enumerator. *)

EnumHandle == "hEnumerator"
Handles == {EnumHandle, "hEvent", "hUnused"}

\* What each handle names in the object table.
object_table == [h \in Handles |->
  IF h = EnumHandle THEN "XEnumerator" ELSE IF h = "hEvent" THEN "XEvent" ELSE "none"]

\* LookupObject<XEnumerator>(handle): the object when the handle names an
\* enumerator, absent when it names nothing or an object of another type.
LookupObject(handle) == object_table[handle] = "XEnumerator"

\* Byte j of the k-th item (k from 1) of an enumerator with items of `size` bytes.
ItemByte(k, j, size) == (k - 1) * size + j + 1

\* The item a slot of `size` bytes at offset `off` holds, 0 when it holds none.
ItemAt(buf, off, size) ==
  IF buf[off] = Untouched THEN 0 ELSE ((buf[off] - 1) \div size) + 1

\* XEnumerator::WriteItem(buffer): false when current_item >= item_count, else
\* serializes the next item at `off` and advances current_item by one.
WriteItem(en, buf, off) ==
  IF en.current_item >= en.item_count
  THEN [ok |-> FALSE, e |-> en, buffer |-> buf]
  ELSE [ok |-> TRUE,
        e |-> [en EXCEPT !.current_item = en.current_item + 1],
        buffer |-> [i \in DOMAIN buf |->
                      IF i >= off /\ i < off + en.item_size
                      THEN ItemByte(en.current_item + 1, i - off, en.item_size)
                      ELSE buf[i]]]

\* KernelState::CompleteOverlappedImmediateEx: stores the three fields.
CompleteOverlappedImmediateEx(result, extended_error, length) ==
  [result |-> result, extended_error |-> extended_error, length |-> length]

PendingOverlapped ==
  [result |-> GuestPrior, extended_error |-> GuestPrior, length |-> GuestPrior]

----------------------------------------------------------------------------
(* XamEnumerate. *)

\* Mutant: the quirk also triggers below items_per_enumerate.
ActualBufferLength_AtMost(en, buffer_length) ==
  IF buffer_length <= en.items_per_enumerate
  THEN en.item_count * en.item_size
  ELSE buffer_length

\* Mutant: the older rule the source keeps in a comment,
\* item_size * items_per_enumerate.
ActualBufferLength_OldMethod(en, buffer_length) ==
  IF buffer_length = en.items_per_enumerate
  THEN en.item_size * en.items_per_enumerate
  ELSE buffer_length

\* actual_buffer_length: buffer_length, unless it equals items_per_enumerate.
ActualBufferLength(en, buffer_length) ==
  IF buffer_length = en.items_per_enumerate
  THEN en.item_count * en.item_size
  ELSE buffer_length

\* Mutant: item_buffer is never advanced, every item lands in the first slot.
RECURSIVE EnumerateItems_NoAdvance(_, _, _, _, _)
EnumerateItems_NoAdvance(en, buf, item_buffer, max_items, item_count) ==
  IF max_items = 0
  THEN [e |-> en, buffer |-> buf, item_count |-> item_count]
  ELSE CHOOSE after \in
         {IF ~w.ok
          THEN [e |-> en, buffer |-> buf, item_count |-> item_count]
          ELSE EnumerateItems_NoAdvance(w.e, w.buffer, item_buffer,
                                        max_items - 1, item_count + 1) :
          w \in {WriteItem(en, buf, item_buffer)}} : TRUE

\* while (max_items--) { if (!e->WriteItem(item_buffer)) break;
\*                       item_buffer += e->item_size(); item_count++; }
\* w is what one WriteItem call leaves; `after` is the state the rest of the
\* loop leaves from there.
RECURSIVE EnumerateItems(_, _, _, _, _)
EnumerateItems(en, buf, item_buffer, max_items, item_count) ==
  IF max_items = 0
  THEN [e |-> en, buffer |-> buf, item_count |-> item_count]
  ELSE CHOOSE after \in
         {IF ~w.ok
          THEN [e |-> en, buffer |-> buf, item_count |-> item_count]
          ELSE EnumerateItems(w.e, w.buffer, item_buffer + en.item_size,
                              max_items - 1, item_count + 1) :
          w \in {WriteItem(en, buf, item_buffer)}} : TRUE

\* Mutant: the exhaustion test is missing, the loop runs and reports SUCCESS.
EnumerateResult_NoExhaustCheck(en, buf, buffer_length) ==
  LET actual_buffer_length == ActualBufferLength(en, buffer_length) IN
  IF actual_buffer_length < en.item_size
  THEN [result |-> X_ERROR_INSUFFICIENT_BUFFER, item_count |-> 0,
        e |-> en, buffer |-> buf]
  ELSE LET r == EnumerateItems(en, buf, 0,
                               actual_buffer_length \div en.item_size, 0) IN
       [result |-> X_ERROR_SUCCESS, item_count |-> r.item_count,
        e |-> r.e, buffer |-> r.buffer]

\* Mutant: the buffer-size test is missing.
EnumerateResult_NoSizeCheck(en, buf, buffer_length) ==
  LET actual_buffer_length == ActualBufferLength(en, buffer_length) IN
  IF en.current_item >= en.item_count
  THEN [result |-> X_ERROR_NO_MORE_FILES, item_count |-> 0,
        e |-> en, buffer |-> buf]
  ELSE LET r == EnumerateItems(en, buf, 0,
                               actual_buffer_length \div en.item_size, 0) IN
       [result |-> X_ERROR_SUCCESS, item_count |-> r.item_count,
        e |-> r.e, buffer |-> r.buffer]

\* The enumeration proper: result, item_count, and what became of the
\* enumerator and of the guest buffer.
EnumerateResult(en, buf, buffer_length) ==
  LET actual_buffer_length == ActualBufferLength(en, buffer_length) IN
  IF actual_buffer_length < en.item_size
  THEN [result |-> X_ERROR_INSUFFICIENT_BUFFER, item_count |-> 0,
        e |-> en, buffer |-> buf]
  ELSE IF en.current_item >= en.item_count
  THEN [result |-> X_ERROR_NO_MORE_FILES, item_count |-> 0,
        e |-> en, buffer |-> buf]
  ELSE LET r == EnumerateItems(en, buf, 0,
                               actual_buffer_length \div en.item_size, 0) IN
       [result |-> X_ERROR_SUCCESS, item_count |-> r.item_count,
        e |-> r.e, buffer |-> r.buffer]

\* The handle names no enumerator.
LookupFailure(has_overlapped) ==
  IF has_overlapped
  THEN [ret |-> X_ERROR_IO_PENDING,
        overlapped |-> CompleteOverlappedImmediateEx(
                         X_ERROR_INVALID_HANDLE, X_ERROR_INVALID_HANDLE, 0),
        completions |-> 1,
        items_returned |-> GuestPrior]
  ELSE [ret |-> X_ERROR_INVALID_HANDLE,
        overlapped |-> PendingOverlapped,
        completions |-> 0,
        items_returned |-> GuestPrior]

\* Mutant: the asynchronous path passes the status on unwrapped, as the
\* lookup-failure path does.
Deliver_RawStatus(result, item_count, has_items_returned, has_overlapped) ==
  IF has_items_returned
  THEN [ret |-> result,
        overlapped |-> PendingOverlapped,
        completions |-> 0,
        items_returned |-> IF result = X_ERROR_SUCCESS THEN item_count ELSE 0]
  ELSE IF has_overlapped
  THEN [ret |-> X_ERROR_IO_PENDING,
        overlapped |-> CompleteOverlappedImmediateEx(
                         result, result,
                         IF result = X_ERROR_SUCCESS THEN item_count ELSE 0),
        completions |-> 1,
        items_returned |-> GuestPrior]
  ELSE [ret |-> X_ERROR_INVALID_PARAMETER,
        overlapped |-> PendingOverlapped,
        completions |-> 0,
        items_returned |-> GuestPrior]

\* Mutant: the asynchronous path completes the request only on success.
Deliver_NoCompletionOnFailure(result, item_count, has_items_returned, has_overlapped) ==
  IF has_items_returned
  THEN [ret |-> result,
        overlapped |-> PendingOverlapped,
        completions |-> 0,
        items_returned |-> IF result = X_ERROR_SUCCESS THEN item_count ELSE 0]
  ELSE IF has_overlapped
  THEN [ret |-> X_ERROR_IO_PENDING,
        overlapped |-> IF result = X_ERROR_SUCCESS
                       THEN CompleteOverlappedImmediateEx(
                              X_ERROR_SUCCESS, X_HRESULT_FROM_WIN32(result),
                              item_count)
                       ELSE PendingOverlapped,
        completions |-> IF result = X_ERROR_SUCCESS THEN 1 ELSE 0,
        items_returned |-> GuestPrior]
  ELSE [ret |-> X_ERROR_INVALID_PARAMETER,
        overlapped |-> PendingOverlapped,
        completions |-> 0,
        items_returned |-> GuestPrior]

\* Delivery of result and item_count to the caller.
Deliver(result, item_count, has_items_returned, has_overlapped) ==
  IF has_items_returned
  THEN [ret |-> result,
        overlapped |-> PendingOverlapped,
        completions |-> 0,
        items_returned |-> IF result = X_ERROR_SUCCESS THEN item_count ELSE 0]
  ELSE IF has_overlapped
  THEN [ret |-> X_ERROR_IO_PENDING,
        overlapped |-> CompleteOverlappedImmediateEx(
                         IF result = X_ERROR_SUCCESS
                         THEN X_ERROR_SUCCESS ELSE X_ERROR_FUNCTION_FAILED,
                         X_HRESULT_FROM_WIN32(result),
                         IF result = X_ERROR_SUCCESS THEN item_count ELSE 0),
        completions |-> 1,
        items_returned |-> GuestPrior]
  ELSE [ret |-> X_ERROR_INVALID_PARAMETER,
        overlapped |-> PendingOverlapped,
        completions |-> 0,
        items_returned |-> GuestPrior]

\* The arguments of a call, as `call` records them.  `before` is current_item
\* when the call was made.
CallOf(op, handle, flags, length, has_out, has_overlapped, before) ==
  [op |-> op, handle |-> handle, flags |-> flags, length |-> length,
   has_out |-> has_out, has_overlapped |-> has_overlapped, before |-> before]

\* The items the first n slots of a buffer hold, in slot order.
RECURSIVE ItemsIn(_, _, _)
ItemsIn(buf, size, n) ==
  IF n = 0 THEN <<>>
  ELSE Append(ItemsIn(buf, size, n - 1), ItemAt(buf, (n - 1) * size, size))

XamEnumerateCall(handle, flags, buffer_length, has_items_returned, has_overlapped) ==
  /\ call' = CallOf("XamEnumerate", handle, flags, buffer_length,
                    has_items_returned, has_overlapped, e.current_item)
  /\ size_out' = GuestPrior
  /\ UNCHANGED <<loader_vars, string_vars, heap_vars, thread_vars, schema_vars>>
  /\ IF ~LookupObject(handle)
     THEN \E d \in {LookupFailure(has_overlapped)} :
          /\ ret' = d.ret
          /\ overlapped' = d.overlapped
          /\ completions' = d.completions
          /\ items_returned' = d.items_returned
          /\ status' = X_ERROR_INVALID_HANDLE
          /\ buffer' = FreshBuffer
          /\ UNCHANGED enum_vars
     ELSE \E r \in {EnumerateResult(e, FreshBuffer, buffer_length)} :
          \E d \in {Deliver(r.result, r.item_count,
                            has_items_returned, has_overlapped)} :
          /\ e' = r.e
          /\ buffer' = r.buffer
          /\ status' = r.result
          /\ ret' = d.ret
          /\ overlapped' = d.overlapped
          /\ completions' = d.completions
          /\ items_returned' = d.items_returned
          /\ written' = written \o ItemsIn(r.buffer, e.item_size, r.item_count)
          /\ reported' = reported +
               (IF has_items_returned THEN d.items_returned
                ELSE IF has_overlapped THEN d.overlapped.length ELSE 0)

XamEnumerate ==
  \E handle \in Handles, flags \in {0, 1}, buffer_length \in 0..MaxBufferLength,
     has_items_returned \in BOOLEAN, has_overlapped \in BOOLEAN :
    XamEnumerateCall(handle, flags, buffer_length, has_items_returned, has_overlapped)

----------------------------------------------------------------------------
(* Loader launch data. *)

LaunchBytes == 1..MaxByte

RECURSIVE SeqsUpTo(_, _)
SeqsUpTo(S, n) ==
  IF n = 0 THEN {<<>>}
  ELSE LET shorter == SeqsUpTo(S, n - 1) IN
       shorter \cup {Append(s, x) : s \in {t \in shorter : Len(t) = n - 1}, x \in S}

\* std::memcpy(dst, src.data(), n): the first n bytes of src to offsets 0..n-1.
Memcpy(buf, src, n) ==
  [i \in DOMAIN buf |-> IF i < n THEN src[i + 1] ELSE buf[i]]

\* Mutant: the resize and copy are missing, the stored bytes stay as they were.
SetLaunchData_NoCopy(data) ==
  [launch_data_present |-> (Len(data) # 0),
   launch_data |-> loader_data.launch_data]

\* loader_data after XamLoaderSetLaunchData(data, size).
SetLaunchData(data) ==
  [launch_data_present |-> (Len(data) # 0), launch_data |-> data]

XamLoaderSetLaunchData ==
  \E data \in SeqsUpTo(LaunchBytes, MaxLaunchLen) :
    /\ loader_data' = SetLaunchData(data)
    /\ set_called' = TRUE
    /\ set_bytes' = data
    /\ call' = CallOf("XamLoaderSetLaunchData", "hUnused", 0, Len(data),
                      FALSE, FALSE, 0)
    /\ ret' = 0
    /\ buffer' = FreshBuffer
    /\ items_returned' = GuestPrior
    /\ size_out' = GuestPrior
    /\ overlapped' = PendingOverlapped
    /\ completions' = 0
    /\ status' = 0
    /\ UNCHANGED <<enum_vars, string_vars, heap_vars, thread_vars, schema_vars>>

\* XamLoaderGetLaunchDataSize(size_ptr): the return value and *size_ptr.
GetLaunchDataSize(ld, has_size_ptr) ==
  IF ~has_size_ptr
  THEN [ret |-> X_ERROR_INVALID_PARAMETER, size_out |-> GuestPrior]
  ELSE IF ~ld.launch_data_present
  THEN [ret |-> X_ERROR_NOT_FOUND, size_out |-> 0]
  ELSE [ret |-> X_ERROR_SUCCESS, size_out |-> Len(ld.launch_data)]

XamLoaderGetLaunchDataSize ==
  \E has_size_ptr \in BOOLEAN :
    \E r \in {GetLaunchDataSize(loader_data, has_size_ptr)} :
    /\ call' = CallOf("XamLoaderGetLaunchDataSize", "hUnused", 0, 0,
                      has_size_ptr, FALSE, 0)
    /\ ret' = r.ret
    /\ size_out' = r.size_out
    /\ buffer' = FreshBuffer
    /\ items_returned' = GuestPrior
    /\ overlapped' = PendingOverlapped
    /\ completions' = 0
    /\ status' = 0
    /\ UNCHANGED <<enum_vars, loader_vars, string_vars, heap_vars, thread_vars,
                   schema_vars>>

\* Mutant: launch_data_present is not consulted.
GetLaunchData_IgnorePresent(ld, buf, buffer_size) ==
  LET copy_size == Min2(Len(ld.launch_data), buffer_size) IN
  [ret |-> X_ERROR_SUCCESS, buffer |-> Memcpy(buf, ld.launch_data, copy_size)]

\* Mutant: copy_size is not clamped to buffer_size.
GetLaunchData_NoClamp(ld, buf, buffer_size) ==
  IF ~ld.launch_data_present
  THEN [ret |-> X_ERROR_NOT_FOUND, buffer |-> buf]
  ELSE [ret |-> X_ERROR_SUCCESS,
        buffer |-> Memcpy(buf, ld.launch_data, Len(ld.launch_data))]

\* XamLoaderGetLaunchData(buffer_ptr, buffer_size): the return value and the
\* guest buffer.
GetLaunchData(ld, buf, buffer_size) ==
  IF ~ld.launch_data_present
  THEN [ret |-> X_ERROR_NOT_FOUND, buffer |-> buf]
  ELSE LET copy_size == Min2(Len(ld.launch_data), buffer_size) IN
       [ret |-> X_ERROR_SUCCESS, buffer |-> Memcpy(buf, ld.launch_data, copy_size)]

XamLoaderGetLaunchData ==
  \E buffer_size \in 0..MaxBufferLength :
    \E r \in {GetLaunchData(loader_data, FreshBuffer, buffer_size)} :
    /\ call' = CallOf("XamLoaderGetLaunchData", "hUnused", 0, buffer_size,
                      TRUE, FALSE, 0)
    /\ ret' = r.ret
    /\ buffer' = r.buffer
    /\ size_out' = GuestPrior
    /\ items_returned' = GuestPrior
    /\ overlapped' = PendingOverlapped
    /\ completions' = 0
    /\ status' = 0
    /\ UNCHANGED <<enum_vars, loader_vars, string_vars, heap_vars, thread_vars,
                   schema_vars>>

----------------------------------------------------------------------------
(* String-producing calls: XamFormatDateString, XamFormatTimeString and     *)
(* keXamBuildResourceLocator.  A string is a sequence of UTF-16 code units; *)
(* the guest buffer is a function from unit index to the unit stored.       *)

MaxCapacity == 24

\* Guest memory modelled behind the buffer pointer, in 16-bit units: enough
\* for everything a call can write, whatever capacity the caller declares.
StrUnits == 2 * MaxCapacity + 2

\* Every unit holds GuestPrior (0xFFFF read as int16) before the call; the
\* calls store 0 or the byte-swapped unit of an ASCII character.
FreshUnits == [i \in 0..(StrUnits - 1) |-> GuestPrior]

\* xe::byte_swap of a 16-bit unit.
Swap16(u) == (u % 256) * 256 + (u \div 256)

\* str.c_str()[i]: the characters, then the terminator; a read further on is
\* outside the string's storage and yields whatever lies there.
c_str(str, i, garbage) ==
  IF i < Len(str) THEN str[i + 1] ELSE IF i = Len(str) THEN 0 ELSE garbage

\* xe::copy_and_swap(dest, src, count) on char16_t: count is in units.
copy_and_swap(dest, src, count, garbage) ==
  [i \in DOMAIN dest |->
     IF i < count THEN Swap16(c_str(src, i, garbage)) ELSE dest[i]]

\* std::memset(output_buffer, 0, output_count * 2): output_count units.
memset(dest, output_count) ==
  [i \in DOMAIN dest |-> IF i < output_count THEN 0 ELSE dest[i]]

\* fmt::format pieces: "{}" and "{:02d}" of an unsigned, "{:X}" of a uint32.
RECURSIVE Decimal(_)
Decimal(n) ==
  IF n < 10 THEN <<48 + n>> ELSE Append(Decimal(n \div 10), 48 + (n % 10))

TwoDigits(n) == IF n < 10 THEN <<48>> \o Decimal(n) ELSE Decimal(n)

RECURSIVE UpperHex(_)
UpperHex(n) ==
  LET d == n % 16
      c == IF d < 10 THEN 48 + d ELSE 55 + d
  IN  IF n < 16 THEN <<c>> ELSE Append(UpperHex(n \div 16), c)

\* u"{:02d}/{:02d}/{}" of wMonth, wDay, wYear.
FormatDate(wMonth, wDay, wYear) ==
  TwoDigits(wMonth) \o <<47>> \o TwoDigits(wDay) \o <<47>> \o Decimal(wYear)

\* u"{:02d}:{:02d}" of wHour, wMinute.
FormatTime(wHour, wMinute) == TwoDigits(wHour) \o <<58>> \o TwoDigits(wMinute)

\* u"file://media:/{}.xzp#{}" when module is 0, else u"section://{:X},{}#{}".
ResourcePath(module, container, resource) ==
  IF module = 0
  THEN <<102, 105, 108, 101, 58, 47, 47, 109, 101, 100, 105, 97, 58, 47>>
       \o container \o <<46, 120, 122, 112, 35>> \o resource
  ELSE <<115, 101, 99, 116, 105, 111, 110, 58, 47, 47>> \o UpperHex(module)
       \o <<44>> \o container \o <<35>> \o resource

\* XamFormatDateString: the guest buffer after the call.  Off Windows only the
\* memset runs.
FormatDateString(buf, output_count, str, win32, garbage) ==
  LET zeroed == memset(buf, output_count)
      copy_length == Min2(output_count, Len(str)) * 2
  IN  IF win32 THEN copy_and_swap(zeroed, str, copy_length, garbage) ELSE zeroed

\* XamFormatTimeString: the guest buffer after the call.
\* copy_count stays within the string, so no unit beyond it is read.
FormatTimeString(buf, output_count, str, win32) ==
  LET zeroed == memset(buf, output_count)
      copy_count == Min2(output_count, Len(str))
  IN  IF win32 THEN copy_and_swap(zeroed, str, copy_count, 0) ELSE zeroed

\* keXamBuildResourceLocator: the guest buffer after the call.
keXamBuildResourceLocator(buf, buffer_count, path) ==
  LET copy_count == Min2(buffer_count, Len(path)) IN
  [copy_and_swap(buf, path, copy_count, 0) EXCEPT ![copy_count] = 0]

\* The inputs the calls are driven with.
Months == {1, 12}
Days == {9, 31}
Years == {1601, 2024, 30827}
Hours == {0, 23}
Minutes == {5, 59}
Modules == {0, 26}
Containers == {<<120, 97, 109>>}
Resources == {<<>>, <<97>>}
Garbage == {0, 65}

StrCallOf(op, capacity, source) ==
  [op |-> op, capacity |-> capacity, source |-> source]

XamFormatDateString ==
  \E output_count \in 0..MaxCapacity, wMonth \in Months, wDay \in Days,
     wYear \in Years, win32 \in BOOLEAN, garbage \in Garbage :
    \E str \in {FormatDate(wMonth, wDay, wYear)} :
    /\ str_call' = StrCallOf("XamFormatDateString", output_count,
                             IF win32 THEN str ELSE <<>>)
    /\ str_buf' = FormatDateString(FreshUnits, output_count, str, win32, garbage)
    /\ UNCHANGED <<enum_vars, loader_vars, call_vars, heap_vars, thread_vars,
                   schema_vars>>

XamFormatTimeString ==
  \E output_count \in 0..MaxCapacity, wHour \in Hours, wMinute \in Minutes,
     win32 \in BOOLEAN :
    \E str \in {FormatTime(wHour, wMinute)} :
    /\ str_call' = StrCallOf("XamFormatTimeString", output_count,
                             IF win32 THEN str ELSE <<>>)
    /\ str_buf' = FormatTimeString(FreshUnits, output_count, str, win32)
    /\ UNCHANGED <<enum_vars, loader_vars, call_vars, heap_vars, thread_vars,
                   schema_vars>>

XamBuildResourceLocator ==
  \E buffer_count \in 0..MaxCapacity, module \in Modules,
     container \in Containers, resource \in Resources :
    \E path \in {ResourcePath(module, container, resource)} :
    /\ str_call' = StrCallOf("XamBuildResourceLocator", buffer_count, path)
    /\ str_buf' = keXamBuildResourceLocator(FreshUnits, buffer_count, path)
    /\ UNCHANGED <<enum_vars, loader_vars, call_vars, heap_vars, thread_vars,
                   schema_vars>>

----------------------------------------------------------------------------
(* XamAlloc / XamFree over the system heap.  The heap is the set of blocks  *)
(* handed out, each [addr, size]; address 0 is the sentinel for "no block". *)

HeapGranules == 4

\* The heap hands out blocks aligned to, and rounded up to, this many bytes.
HeapAlign == 64

Granules(size) == (size + HeapAlign - 1) \div HeapAlign
HeapAddrs == {g * HeapAlign : g \in 1..HeapGranules}

BlockGranules(b) ==
  (b.addr \div HeapAlign)..((b.addr \div HeapAlign) + Granules(b.size) - 1)
UsedGranules(h) == UNION {BlockGranules(b) : b \in h}

\* The granules at which a block of `size` bytes fits.
FitsAt(h, size) ==
  {g \in 1..HeapGranules :
     /\ g + Granules(size) - 1 <= HeapGranules
     /\ (g..(g + Granules(size) - 1)) \cap UsedGranules(h) = {}}

\* Memory::SystemHeapAlloc(size): the address of a fresh block, or 0 when no
\* block of that size can be had.
SystemHeapAlloc(h, size) ==
  IF FitsAt(h, size) = {}
  THEN [ptr |-> 0, heap |-> h]
  ELSE LET g == CHOOSE x \in FitsAt(h, size) : \A y \in FitsAt(h, size) : x <= y
       IN  [ptr |-> g * HeapAlign,
            heap |-> h \cup {[addr |-> g * HeapAlign, size |-> size]}]

\* Memory::SystemHeapFree(address): the block at that address is released.
SystemHeapFree(h, address) == {b \in h : b.addr # address}

\* XamAlloc(unk, size, out_ptr): the return value, *out_ptr and the heap.
Alloc(h, unk, size) ==
  LET a == SystemHeapAlloc(h, size) IN
  [ret |-> X_ERROR_SUCCESS, out_ptr |-> a.ptr, heap |-> a.heap]

\* XamFree(ptr): the return value and the heap.
Free(h, ptr) == [ret |-> X_ERROR_SUCCESS, heap |-> SystemHeapFree(h, ptr)]

HeapCallOf(op, unk, size, ptr, result, satisfiable) ==
  [op |-> op, unk |-> unk, size |-> size, ptr |-> ptr, ret |-> result,
   satisfiable |-> satisfiable]

\* The sizes the guest asks for: within a granule, a whole one, more than one.
AllocSizes == {1, HeapAlign, HeapAlign + 1, 2 * HeapAlign + 1}

XamAlloc ==
  \E unk \in {0, 1}, size \in AllocSizes :
    \E r \in {Alloc(heap, unk, size)} :
    /\ heap' = r.heap
    /\ heap_call' = HeapCallOf("XamAlloc", unk, size, r.out_ptr, r.ret,
                               SystemHeapAlloc(heap, size).ptr # 0)
    /\ UNCHANGED <<enum_vars, loader_vars, call_vars, string_vars, thread_vars,
                   schema_vars>>

\* The guest frees what it was given: ptr is the address of a live block.
XamFree ==
  \E b \in heap :
    \E r \in {Free(heap, b.addr)} :
    /\ heap' = r.heap
    /\ heap_call' = HeapCallOf("XamFree", 0, b.size, b.addr, r.ret, TRUE)
    /\ UNCHANGED <<enum_vars, loader_vars, call_vars, string_vars, thread_vars,
                   schema_vars>>

----------------------------------------------------------------------------
(* XamEnumerate step by step, for guest threads that call it at the same    *)
(* time on the one enumerator.  XamEnumerate takes no lock, and nothing     *)
(* orders the accesses of two calls to the cursor: each access is a step of *)
(* its own, and the steps of the threads interleave freely.  Every thread   *)
(* has its own guest buffer, *items_returned and XAM_OVERLAPPED.            *)

Threads == {"t1", "t2"}

\* Value of a thread's return register while its call has not returned.
NotReturned == GuestPrior

IdleThread ==
  [pc |-> "idle", handle |-> "hUnused", length |-> 0,
   has_out |-> FALSE, has_overlapped |-> FALSE,
   max_items |-> 0, item_count |-> 0, item_buffer |-> 0, cur |-> 0,
   result |-> 0, buffer |-> FreshBuffer, ret |-> NotReturned,
   items_returned |-> GuestPrior, overlapped |-> PendingOverlapped,
   completion |-> PendingOverlapped, todo |-> <<>>]

\* Mutant: the call returns first and the request is completed afterwards.
AsyncSteps_ReturnFirst == <<"return", "complete">>

\* The asynchronous tail of the call: CompleteOverlappedImmediateEx(...),
\* then return X_ERROR_IO_PENDING.
AsyncSteps == <<"complete", "return">>

\* The thread takes up the steps in `todo`, or is done when none is left.
Continue(th, todo) ==
  [th EXCEPT !.todo = todo,
             !.pc = IF todo = <<>> THEN "done" ELSE Head(todo)]

\* What the delivery d (of LookupFailure or Deliver) leaves of the call: an
\* asynchronous delivery is the completion and the return, one after the
\* other; any other delivery stores the count and returns at once.
Finish(th, d) ==
  IF d.completions = 1
  THEN Continue([th EXCEPT !.completion = d.overlapped], AsyncSteps)
  ELSE [th EXCEPT !.pc = "done", !.ret = d.ret,
                  !.items_returned = d.items_returned]

\* The call and the lookup of the handle.
Enter(t) ==
  /\ thr[t].pc = "idle"
  /\ \E handle \in {EnumHandle, "hUnused"},
        buffer_length \in 0..MaxBufferLength, has_items_returned \in BOOLEAN :
       \E th \in {[thr[t] EXCEPT !.handle = handle, !.length = buffer_length,
                                 !.has_out = has_items_returned,
                                 !.has_overlapped = ~has_items_returned]} :
         thr' = [thr EXCEPT ![t] =
                   IF ~LookupObject(handle)
                   THEN Finish(th, LookupFailure(th.has_overlapped))
                   ELSE [th EXCEPT !.pc = "check"]]
  /\ UNCHANGED e

\* The tests on the buffer length and on the cursor.
Check(t) ==
  /\ thr[t].pc = "check"
  /\ \E actual_buffer_length \in {ActualBufferLength(e, thr[t].length)} :
       thr' = [thr EXCEPT ![t] =
                 IF actual_buffer_length < e.item_size
                 THEN [@ EXCEPT !.result = X_ERROR_INSUFFICIENT_BUFFER,
                                !.pc = "deliver"]
                 ELSE IF e.current_item >= e.item_count
                 THEN [@ EXCEPT !.result = X_ERROR_NO_MORE_FILES,
                                !.pc = "deliver"]
                 ELSE [@ EXCEPT !.max_items = actual_buffer_length \div e.item_size,
                                !.pc = "write"]]
  /\ UNCHANGED e

\* while (max_items--) and the first half of WriteItem: the cursor is read and
\* tested, and the item under it serialized into the thread's buffer.
Write(t) ==
  /\ thr[t].pc = "write"
  /\ \E w \in {WriteItem(e, thr[t].buffer, thr[t].item_buffer)} :
       thr' = [thr EXCEPT ![t] =
                 IF ~w.ok
                 THEN [@ EXCEPT !.result = X_ERROR_SUCCESS, !.pc = "deliver"]
                 ELSE [@ EXCEPT !.max_items = @ - 1, !.buffer = w.buffer,
                                !.cur = e.current_item, !.pc = "advance"]]
  /\ UNCHANGED e

\* The second half of WriteItem, the unsynchronized current_item++: the value
\* stored is one more than the cursor as read in the first half, or one more
\* than the cursor as it is now.  Then item_buffer += item_size, item_count++.
Advance(t) ==
  /\ thr[t].pc = "advance"
  /\ \E stored \in {thr[t].cur + 1, e.current_item + 1} :
       e' = [e EXCEPT !.current_item = stored]
  /\ thr' = [thr EXCEPT ![t] =
               [@ EXCEPT !.item_buffer = @ + e.item_size,
                         !.item_count = @ + 1,
                         !.result = X_ERROR_SUCCESS,
                         !.pc = IF thr[t].max_items = 0 THEN "deliver" ELSE "write"]]

\* Delivery of result and item_count.
DeliverStep(t) ==
  /\ thr[t].pc = "deliver"
  /\ thr' = [thr EXCEPT ![t] =
               Finish(@, Deliver(thr[t].result, thr[t].item_count,
                                 thr[t].has_out, thr[t].has_overlapped))]
  /\ UNCHANGED e

\* CompleteOverlappedImmediateEx on the thread's XAM_OVERLAPPED.
Complete(t) ==
  /\ thr[t].pc = "complete"
  /\ thr' = [thr EXCEPT ![t] =
               Continue([@ EXCEPT !.overlapped = CompleteOverlappedImmediateEx(
                                     thr[t].completion.result,
                                     thr[t].completion.extended_error,
                                     thr[t].completion.length)],
                        Tail(thr[t].todo))]
  /\ UNCHANGED e

\* return X_ERROR_IO_PENDING.
Return(t) ==
  /\ thr[t].pc = "return"
  /\ thr' = [thr EXCEPT ![t] =
               Continue([@ EXCEPT !.ret = X_ERROR_IO_PENDING], Tail(thr[t].todo))]
  /\ UNCHANGED e

ThreadStep(t) ==
  \/ Enter(t)
  \/ Check(t)
  \/ Write(t)
  \/ Advance(t)
  \/ DeliverStep(t)
  \/ Complete(t)
  \/ Return(t)

NextThreads ==
  /\ \E t \in Threads : ThreadStep(t)
  /\ UNCHANGED <<written, reported, loader_vars, call_vars, string_vars,
                 heap_vars, schema_vars>>

\* WriteItem as one indivisible step, as it would be if XEnumerator guarded
\* the cursor itself; the test at the head of XamEnumerate stays a step apart.
WriteWhole(t) ==
  /\ thr[t].pc = "write"
  /\ \E w \in {WriteItem(e, thr[t].buffer, thr[t].item_buffer)} :
       /\ e' = w.e
       /\ thr' = [thr EXCEPT ![t] =
                    IF ~w.ok
                    THEN [@ EXCEPT !.result = X_ERROR_SUCCESS, !.pc = "deliver"]
                    ELSE [@ EXCEPT !.max_items = @ - 1, !.buffer = w.buffer,
                                   !.item_buffer = @ + e.item_size,
                                   !.item_count = @ + 1,
                                   !.result = X_ERROR_SUCCESS,
                                   !.pc = IF thr[t].max_items = 1
                                          THEN "deliver" ELSE "write"]]

NextThreadsWriteWhole ==
  /\ \E t \in Threads :
       \/ Enter(t)
       \/ Check(t)
       \/ WriteWhole(t)
       \/ DeliverStep(t)
       \/ Complete(t)
       \/ Return(t)
  /\ UNCHANGED <<written, reported, loader_vars, call_vars, string_vars,
                 heap_vars, schema_vars>>

----------------------------------------------------------------------------
(* XamGetOnlineSchema step by step.  schema_guest is a function-local       *)
(* static that the export tests, assigns and reads without any lock, so     *)
(* each access is a step of its own and the steps of the guest threads      *)
(* interleave freely.  The contents stored into the block play no part in   *)
(* which address a call returns; of them the model keeps which block each   *)
(* call filled.                                                             *)

\* 8 + sizeof(schema_bin): the pointer/size header and the 44 schema bytes.
SchemaSize == 8 + 44

IdleSchemaThread ==
  [pc |-> "idle", allocs |-> 0, filled |-> {}, returned |-> {}]

\* if (!schema_guest)
SchemaTest(t) ==
  /\ schema_thr[t].pc = "idle"
  /\ schema_thr' = [schema_thr EXCEPT ![t].pc =
                      IF schema_guest = 0 THEN "alloc" ELSE "return"]
  /\ UNCHANGED <<schema_guest, heap>>

\* schema_guest = SystemHeapAlloc(8 + sizeof(schema_bin));
SchemaAlloc(t) ==
  /\ schema_thr[t].pc = "alloc"
  /\ \E a \in {SystemHeapAlloc(heap, SchemaSize)} :
       /\ heap' = a.heap
       /\ schema_guest' = a.ptr
       /\ schema_thr' = [schema_thr EXCEPT
                           ![t].pc = "fill",
                           ![t].allocs = @ + (IF a.ptr # 0 THEN 1 ELSE 0)]

\* schema = TranslateVirtual(schema_guest); memcpy; the two store_and_swap.
SchemaFill(t) ==
  /\ schema_thr[t].pc = "fill"
  /\ schema_thr' = [schema_thr EXCEPT
                      ![t].pc = "return",
                      ![t].filled = @ \cup {schema_guest}]
  /\ UNCHANGED <<schema_guest, heap>>

\* return schema_guest;
SchemaReturn(t) ==
  /\ schema_thr[t].pc = "return"
  /\ schema_thr' = [schema_thr EXCEPT
                      ![t].pc = "idle",
                      ![t].returned = @ \cup {schema_guest}]
  /\ UNCHANGED <<schema_guest, heap>>

XamGetOnlineSchemaStep(t) ==
  /\ \/ SchemaTest(t)
     \/ SchemaAlloc(t)
     \/ SchemaFill(t)
     \/ SchemaReturn(t)
  /\ UNCHANGED <<enum_vars, loader_vars, call_vars, string_vars, heap_call,
                 thread_vars>>

\* Guest threads inside XamGetOnlineSchema, and XamAlloc calls between their
\* steps.
NextSchema ==
  \/ \E t \in Threads : XamGetOnlineSchemaStep(t)
  \/ XamAlloc

\* One thread, and a heap nobody else allocates from.
NextSchemaAlone == XamGetOnlineSchemaStep("t1")

----------------------------------------------------------------------------
(* Specification. *)

Init ==
  /\ e \in [item_size : 1..MaxItemSize,
            items_per_enumerate : 1..MaxItemsPerEnumerate,
            item_count : 0..MaxItemCount,
            current_item : {0}]
  /\ loader_data = [launch_data_present |-> FALSE, launch_data |-> <<>>]
  /\ call = CallOf("none", "hUnused", 0, 0, FALSE, FALSE, 0)
  /\ ret = 0
  /\ buffer = FreshBuffer
  /\ items_returned = GuestPrior
  /\ size_out = GuestPrior
  /\ overlapped = PendingOverlapped
  /\ completions = 0
  /\ status = 0
  /\ written = <<>>
  /\ reported = 0
  /\ set_called = FALSE
  /\ set_bytes = <<>>
  /\ str_call = StrCallOf("none", 0, <<>>)
  /\ str_buf = FreshUnits
  /\ heap = {}
  /\ heap_call = HeapCallOf("none", 0, 0, 0, 0, TRUE)
  /\ thr = [t \in Threads |-> IdleThread]
  /\ schema_guest = 0
  /\ schema_thr = [t \in Threads |-> IdleSchemaThread]

Next ==
  \/ XamEnumerate
  \/ XamLoaderSetLaunchData
  \/ XamLoaderGetLaunchDataSize
  \/ XamLoaderGetLaunchData
  \/ XamFormatDateString
  \/ XamFormatTimeString
  \/ XamBuildResourceLocator
  \/ XamAlloc
  \/ XamFree
  \/ NextThreads
  \/ \E t \in Threads : XamGetOnlineSchemaStep(t)

Spec == Init /\ [][Next]_vars

\* The enumerator alone: the loader calls leave it untouched, and it them.
NextEnum == XamEnumerate

EnumSpec == Init /\ [][NextEnum]_vars

\* XamEnumerate called as its contract asks: flags is 0 and exactly one of
\* items_returned and overlapped is supplied.
XamEnumerateInContract ==
  \E handle \in Handles, buffer_length \in 0..MaxBufferLength,
     has_items_returned \in BOOLEAN :
    XamEnumerateCall(handle, 0, buffer_length,
                     has_items_returned, ~has_items_returned)

\* Such a call on the enumerator, with a buffer of at least one item.
EnumerateFitting ==
  /\ XamEnumerateInContract
  /\ call'.handle = EnumHandle
  /\ call'.length >= e.item_size

\* The guest keeps to the contract and keeps calling with a fitting buffer.
EnumFairSpec ==
  Init /\ [][XamEnumerateInContract]_vars /\ WF_vars(EnumerateFitting)

\* The loader alone.
NextLoader ==
  \/ XamLoaderSetLaunchData
  \/ XamLoaderGetLaunchDataSize
  \/ XamLoaderGetLaunchData

LoaderSpec == Init /\ [][NextLoader]_vars

\* The calls that take no enumerator start from a single one.
InitApart ==
  /\ Init
  /\ e = [item_size |-> 1, items_per_enumerate |-> 1, item_count |-> 0,
          current_item |-> 0]

\* The string-producing calls alone.
NextString ==
  \/ XamFormatDateString
  \/ XamFormatTimeString
  \/ XamBuildResourceLocator

StringSpec == InitApart /\ [][NextString]_vars

\* The heap calls alone.
NextHeap ==
  \/ XamAlloc
  \/ XamFree

HeapSpec == InitApart /\ [][NextHeap]_vars

\* Guest threads calling XamGetOnlineSchema, any number of times.
SchemaSpec == InitApart /\ [][NextSchema]_vars

SchemaAloneSpec == InitApart /\ [][NextSchemaAlone]_vars

\* Two guest threads, one XamEnumerate call each, on the one enumerator.
ThreadSpec == Init /\ [][NextThreads]_vars

\* The same with an indivisible WriteItem.
ThreadWriteWholeSpec == Init /\ [][NextThreadsWriteWhole]_vars

----------------------------------------------------------------------------
(* Properties. *)

IsEnumerate == call.op = "XamEnumerate"

\* The call was XamEnumerate on the handle of the enumerator.
OnEnumerator == IsEnumerate /\ call.handle = EnumHandle

\* The enumerator was exhausted when the call was made.
ExhaustedBefore == OnEnumerator /\ call.before = e.item_count

\* The byte length the call works with: item_count * item_size when the
\* declared length equals items_per_enumerate, the declared length otherwise.
EffectiveLength ==
  IF call.length = e.items_per_enumerate
  THEN e.item_count * e.item_size
  ELSE call.length

\* Whole item slots of the guest buffer the call wrote.
SlotsWritten == Cardinality(Touched(buffer)) \div e.item_size

\* Items 1..n in creation order.
ItemsInOrder(n) == [k \in 1..n |-> k]

\* C1: calls with a buffer of at least one item eventually exhaust the
\* enumerator; at every moment the items delivered so far are exactly items
\* 1..cursor, each once and in creation order, and the counts the calls
\* reported add up to the cursor, hence to item_count once exhausted.
C1_EnumerationExhausts ==
  /\ [](/\ written = ItemsInOrder(e.current_item)
        /\ Len(written) <= e.item_count
        /\ reported = e.current_item
        /\ (e.current_item = e.item_count
              => reported = e.item_count /\ Len(written) = e.item_count))
  /\ <>(e.current_item = e.item_count)

\* C1 witness: an enumerator of several items exhausted over several calls,
\* every item reported.
C1_Witness ==
  /\ OnEnumerator
  /\ status = X_ERROR_SUCCESS
  /\ e.item_count >= 3
  /\ e.current_item = e.item_count
  /\ call.before > 0
  /\ call.length >= e.item_size
  /\ reported = e.item_count

\* C2 as stated: on an exhausted enumerator every call yields NO_MORE_FILES,
\* whatever buffer_length is, and the cursor stays at item_count.
C2_Original ==
  ExhaustedBefore =>
    /\ status = X_ERROR_NO_MORE_FILES
    /\ e.current_item = e.item_count

\* C2 amended: on an exhausted enumerator every call leaves the cursor at
\* item_count and writes nothing; it yields NO_MORE_FILES when the effective
\* length is at least item_size and INSUFFICIENT_BUFFER when it is smaller.
C2_ExhaustedIsTerminal ==
  ExhaustedBefore =>
    /\ e.current_item = e.item_count
    /\ Touched(buffer) = {}
    /\ status = IF EffectiveLength >= e.item_size
                THEN X_ERROR_NO_MORE_FILES
                ELSE X_ERROR_INSUFFICIENT_BUFFER

\* C2 witness: a call on an enumerator that an earlier call exhausted.
C2_Witness ==
  /\ ExhaustedBefore
  /\ e.item_count >= 2
  /\ call.length >= e.item_size
  /\ status = X_ERROR_NO_MORE_FILES

\* C3 as stated: on a non-exhausted enumerator every buffer_length below
\* item_size yields INSUFFICIENT_BUFFER, writes no item and leaves the cursor.
C3_Original ==
  (OnEnumerator /\ call.before < e.item_count /\ call.length < e.item_size) =>
    /\ status = X_ERROR_INSUFFICIENT_BUFFER
    /\ Touched(buffer) = {}
    /\ e.current_item = call.before

\* C3 amended: the same, for every buffer_length below item_size other than
\* items_per_enumerate.
C3_InsufficientBuffer ==
  (/\ OnEnumerator
   /\ call.before < e.item_count
   /\ call.length < e.item_size
   /\ call.length # e.items_per_enumerate) =>
    /\ status = X_ERROR_INSUFFICIENT_BUFFER
    /\ Touched(buffer) = {}
    /\ e.current_item = call.before

\* C3 witness: a non-empty buffer, still too short for one item.
C3_Witness ==
  /\ OnEnumerator
  /\ call.before < e.item_count
  /\ call.before > 0
  /\ call.length > 0
  /\ call.length < e.item_size
  /\ call.length # e.items_per_enumerate
  /\ status = X_ERROR_INSUFFICIENT_BUFFER

\* C4: a call with buffer_length == items_per_enumerate leaves the status, the
\* item count delivered, the bytes in the buffer and the cursor that the same
\* call with buffer_length == item_count * item_size leaves from that state.
C4_QuirkEqualsFullLength ==
  (OnEnumerator /\ call.length = e.items_per_enumerate) =>
    LET pre == [e EXCEPT !.current_item = call.before]
        full == EnumerateResult(pre, FreshBuffer, e.item_count * e.item_size)
        d == Deliver(full.result, full.item_count,
                     call.has_out, call.has_overlapped)
    IN /\ status = full.result
       /\ buffer = full.buffer
       /\ e = full.e
       /\ ret = d.ret
       /\ items_returned = d.items_returned
       /\ overlapped = d.overlapped

\* C4 witness: the declared length is below one item and is not the full
\* length, and the call delivers several items.
C4_Witness ==
  /\ OnEnumerator
  /\ call.length = e.items_per_enumerate
  /\ call.length < e.item_size
  /\ call.length # e.item_count * e.item_size
  /\ status = X_ERROR_SUCCESS
  /\ SlotsWritten >= 2
  /\ items_returned = SlotsWritten

\* The call took the synchronous path: items_returned supplied, no overlapped.
SyncCall == IsEnumerate /\ call.has_out /\ ~call.has_overlapped

\* The call took the asynchronous path: overlapped supplied, items_returned null.
AsyncCall == IsEnumerate /\ call.has_overlapped /\ ~call.has_out

\* The platform's wrapping of a failure status: 0x80070000 | status, as int32.
Wrapped(st) == IF st = 0 THEN 0 ELSE st - 2147024896

\* C5: with a handle that resolves to no enumerator the synchronous path
\* returns INVALID_HANDLE, and the asynchronous path returns IO_PENDING after
\* completing the request with {FUNCTION_FAILED, hresult(INVALID_HANDLE), 0}.
C5_LookupFailure ==
  (IsEnumerate /\ ~LookupObject(call.handle)) =>
    /\ SyncCall => ret = X_ERROR_INVALID_HANDLE
    /\ AsyncCall =>
         /\ ret = X_ERROR_IO_PENDING
         /\ overlapped.result = X_ERROR_FUNCTION_FAILED
         /\ overlapped.extended_error = Wrapped(X_ERROR_INVALID_HANDLE)
         /\ overlapped.length = 0

\* C6: on the asynchronous path with a valid handle the call returns
\* IO_PENDING whatever the status, and the request is completed with SUCCESS
\* or FUNCTION_FAILED, the wrapped status, and the number of items written on
\* SUCCESS, 0 otherwise.
C6_AsyncCompletion ==
  (OnEnumerator /\ AsyncCall) =>
    /\ ret = X_ERROR_IO_PENDING
    /\ completions = 1
    /\ overlapped.result = IF status = X_ERROR_SUCCESS
                           THEN X_ERROR_SUCCESS ELSE X_ERROR_FUNCTION_FAILED
    /\ overlapped.extended_error = Wrapped(status)
    /\ overlapped.length = IF status = X_ERROR_SUCCESS THEN SlotsWritten ELSE 0
    /\ SlotsWritten = e.current_item - call.before

\* C6 witness: an asynchronous call that fails after earlier calls succeeded.
C6_Witness ==
  /\ OnEnumerator
  /\ AsyncCall
  /\ call.before > 0
  /\ status = X_ERROR_NO_MORE_FILES
  /\ ret = X_ERROR_IO_PENDING
  /\ overlapped.result = X_ERROR_FUNCTION_FAILED
  /\ overlapped.extended_error < 0

\* C7: on the synchronous path the call returns the status, and
\* *items_returned holds the items produced by the call on SUCCESS and zero on
\* every other status (INSUFFICIENT_BUFFER, NO_MORE_FILES, INVALID_HANDLE).
C7_SyncDelivery ==
  SyncCall =>
    /\ ret = status
    /\ items_returned = IF status = X_ERROR_SUCCESS THEN SlotsWritten ELSE 0

----------------------------------------------------------------------------
(* Properties of the launch data. *)

IsGetSize == call.op = "XamLoaderGetLaunchDataSize"
IsGetData == call.op = "XamLoaderGetLaunchData"

\* The first n bytes of the guest buffer, as a sequence.
BufferPrefix(n) == [i \in 1..n |-> buffer[i - 1]]

C9_NotFoundBeforeSet ==
  ~set_called =>
    /\ (IsGetSize /\ call.has_out) => ret = X_ERROR_NOT_FOUND
    /\ IsGetData => (ret = X_ERROR_NOT_FOUND /\ Touched(buffer) = {})

\* C9 witness: the data call, with room in the buffer, before any set call.
C9_Witness ==
  /\ ~set_called
  /\ IsGetData
  /\ call.length > 0
  /\ ret = X_ERROR_NOT_FOUND

\* C10: with launch data of length L present, the data call returns SUCCESS,
\* writes exactly the first min(L, capacity) bytes of the launch data and
\* nothing at or beyond capacity, and leaves the stored launch data as set.
C10_TruncatingCopy ==
  (IsGetData /\ loader_data.launch_data_present) =>
    LET L == Len(loader_data.launch_data)
        n == IF L <= call.length THEN L ELSE call.length
    IN /\ ret = X_ERROR_SUCCESS
       /\ Touched(buffer) = 0..(n - 1)
       /\ \A i \in 0..(n - 1) : buffer[i] = loader_data.launch_data[i + 1]
       /\ \A i \in DOMAIN buffer : i >= call.length => buffer[i] = Untouched
       /\ loader_data.launch_data = set_bytes

\* C10 witness: a capacity below the length of the launch data, not zero.
C10_Witness ==
  /\ IsGetData
  /\ loader_data.launch_data_present
  /\ call.length > 0
  /\ call.length < Len(loader_data.launch_data)
  /\ ret = X_ERROR_SUCCESS
  /\ Cardinality(Touched(buffer)) = call.length

\* ---- C11 ----------------------------------------------------------------
IsStringCall ==
  str_call.op \in {"XamFormatDateString", "XamFormatTimeString",
                   "XamBuildResourceLocator"}

\* The marshaling policy for a call of capacity C on a source of length L:
\* the first min(C, L) units are the source's, byte-swapped; nothing else of
\* the source follows them; a terminator stands at L when C > L; no unit at
\* index C or beyond is written.
MarshaledWithin(buf, C, source) ==
  LET L == Len(source)
      n == Min2(C, L)
  IN  /\ \A i \in 0..(n - 1) : buf[i] = Swap16(source[i + 1])
      /\ \A i \in n..(C - 1) : buf[i] \in {0, GuestPrior}
      /\ C > L => buf[L] = 0
      /\ \A i \in DOMAIN buf : i >= C => buf[i] = GuestPrior

\* C11: every string-producing call with a capacity of C units and a source of
\* L units writes exactly min(C, L) units of the source, a terminator only if
\* C > L, and no unit at index C or beyond.
C11_MarshalingWithinCapacity ==
  IsStringCall => MarshaledWithin(str_buf, str_call.capacity, str_call.source)

\* XamFormatTimeString alone keeps to that policy.
TimeStringWithinCapacity ==
  str_call.op = "XamFormatTimeString"
    => MarshaledWithin(str_buf, str_call.capacity, str_call.source)

\* keXamBuildResourceLocator keeps to it when the capacity exceeds the length.
LocatorWithinLargerCapacity ==
  (str_call.op = "XamBuildResourceLocator"
     /\ str_call.capacity > Len(str_call.source))
    => MarshaledWithin(str_buf, str_call.capacity, str_call.source)

\* keXamBuildResourceLocator stores the terminator one unit past the capacity
\* whenever the capacity does not exceed the length.
LocatorTerminatorPastCapacity ==
  (str_call.op = "XamBuildResourceLocator"
     /\ str_call.capacity <= Len(str_call.source))
    => str_buf[str_call.capacity] = 0

\* ---- C12 ----------------------------------------------------------------
\* A block lies wholly inside the heap and overlaps no other block.
WholeBlock(b) ==
  /\ b.addr \in HeapAddrs
  /\ BlockGranules(b) \subseteq 1..HeapGranules
  /\ \A o \in heap : o # b => BlockGranules(o) \cap BlockGranules(b) = {}

\* C12: when the heap cannot satisfy the request XamAlloc yields the zero
\* address with a resource error code, not SUCCESS, and never a partially
\* valid address; when it can, the address is a whole block of n bytes, and
\* XamFree of an address XamAlloc returned succeeds.
C12_AllocExhaustionAndFree ==
  /\ (heap_call.op = "XamAlloc" /\ ~heap_call.satisfiable)
       => heap_call.ptr = 0 /\ heap_call.ret # X_ERROR_SUCCESS
  /\ (heap_call.op = "XamAlloc" /\ heap_call.satisfiable)
       => /\ heap_call.ret = X_ERROR_SUCCESS
          /\ [addr |-> heap_call.ptr, size |-> heap_call.size] \in heap
          /\ WholeBlock([addr |-> heap_call.ptr, size |-> heap_call.size])
  /\ heap_call.op = "XamFree"
       => /\ heap_call.ret = X_ERROR_SUCCESS
          /\ \A b \in heap : b.addr # heap_call.ptr

\* What the code does on exhaustion: the zero address, with SUCCESS.
AllocExhaustedReturnsSuccess ==
  (heap_call.op = "XamAlloc" /\ ~heap_call.satisfiable)
    => heap_call.ptr = 0 /\ heap_call.ret = X_ERROR_SUCCESS

\* The other two parts of C12 hold.
AllocSatisfiedAndFree ==
  /\ (heap_call.op = "XamAlloc" /\ heap_call.satisfiable)
       => /\ heap_call.ret = X_ERROR_SUCCESS
          /\ [addr |-> heap_call.ptr, size |-> heap_call.size] \in heap
          /\ WholeBlock([addr |-> heap_call.ptr, size |-> heap_call.size])
  /\ heap_call.op = "XamFree"
       => /\ heap_call.ret = X_ERROR_SUCCESS
          /\ \A b \in heap : b.addr # heap_call.ptr

\* ---- C13 ----------------------------------------------------------------
\* C13: every asynchronous XamEnumerate call (overlapped supplied,
\* items_returned null) completes its overlapped request exactly once and
\* returns IO_PENDING, on every path: lookup failure, INSUFFICIENT_BUFFER,
\* NO_MORE_FILES and SUCCESS.
C13_CompletesExactlyOnce ==
  AsyncCall
    => /\ completions = 1
       /\ ret = X_ERROR_IO_PENDING
       /\ overlapped.result # GuestPrior
       /\ overlapped.extended_error # GuestPrior
       /\ overlapped.length # GuestPrior
       /\ status \in {X_ERROR_INVALID_HANDLE, X_ERROR_INSUFFICIENT_BUFFER,
                      X_ERROR_NO_MORE_FILES, X_ERROR_SUCCESS}

\* An asynchronous call on an exhausted enumerator, completed once.
C13_Witness ==
  /\ AsyncCall
  /\ status = X_ERROR_NO_MORE_FILES
  /\ completions = 1
  /\ overlapped.result = X_ERROR_FUNCTION_FAILED

\* The other three paths of an asynchronous call.
AsyncLookupFailureReached ==
  AsyncCall /\ ~LookupObject(call.handle) /\ completions = 1
AsyncInsufficientBufferReached ==
  AsyncCall /\ status = X_ERROR_INSUFFICIENT_BUFFER /\ completions = 1
AsyncSuccessReached ==
  AsyncCall /\ status = X_ERROR_SUCCESS /\ completions = 1

\* ---- C14 ----------------------------------------------------------------
\* C14: a call with flags # 0 is reported as an error before anything the
\* guest can see changes: no item is written, the cursor stays, and neither
\* an items_returned count nor a successful completion is produced.
C14_FlagsRejected ==
  (IsEnumerate /\ call.flags # 0)
    => /\ ret # X_ERROR_SUCCESS
       /\ overlapped.result # X_ERROR_SUCCESS
       /\ Touched(buffer) = {}
       /\ e.current_item = call.before
       /\ items_returned \in {GuestPrior, 0}

\* What the code does instead: flags plays no part in the outcome.
FlagsIgnored ==
  (OnEnumerator /\ call.has_out)
    => /\ ret = status
       /\ (status = X_ERROR_SUCCESS
             <=> (EffectiveLength >= e.item_size /\ call.before < e.item_count))
       /\ (status = X_ERROR_SUCCESS => items_returned = SlotsWritten)

\* ---- C15 ----------------------------------------------------------------
\* The call reported failure: a failure status returned, or the request
\* completed with FUNCTION_FAILED.
ReportedFailure ==
  \/ ret \notin {X_ERROR_SUCCESS, X_ERROR_IO_PENDING}
  \/ overlapped.result = X_ERROR_FUNCTION_FAILED

\* C15: no XamEnumerate call changes what the guest can see and then reports
\* failure, whatever the arguments, neither items_returned nor overlapped
\* included: on failure the cursor is where it was and no item is written.
C15_NoMutationOnFailure ==
  (IsEnumerate /\ ReportedFailure)
    => /\ e.current_item = call.before
       /\ Touched(buffer) = {}

\* It does hold of the calls that supply items_returned or overlapped.
NoMutationOnFailureWithOutput ==
  (IsEnumerate /\ ReportedFailure /\ (call.has_out \/ call.has_overlapped))
    => /\ e.current_item = call.before
       /\ Touched(buffer) = {}

\* ---- C18 ----------------------------------------------------------------
\* C18: the cursor always lies in 0..item_count, and each call leaves it at
\* its previous value plus the number of items the call wrote: it never
\* decreases and never moves on a call that writes no item.
C18_CursorWithinCount ==
  /\ e.current_item \in 0..e.item_count
  /\ IsEnumerate
       => /\ e.current_item = call.before + SlotsWritten
          /\ Cardinality(Touched(buffer)) = SlotsWritten * e.item_size
          /\ e.current_item >= call.before
          /\ (Touched(buffer) = {} => e.current_item = call.before)

\* A later call that wrote items and took the cursor to item_count.
C18_Witness ==
  /\ OnEnumerator
  /\ call.before >= 1
  /\ SlotsWritten >= 2
  /\ e.current_item = e.item_count

\* ---- C19 ----------------------------------------------------------------
\* C19: the quirk triggers only on exact equality.  A call whose
\* buffer_length differs from items_per_enumerate works with buffer_length:
\* it fails with INSUFFICIENT_BUFFER exactly when buffer_length < item_size,
\* writes at most floor(buffer_length / item_size) items, and every byte it
\* writes lies within the first buffer_length bytes of the buffer.
C19_QuirkOnlyOnEquality ==
  (OnEnumerator /\ call.length # e.items_per_enumerate)
    => /\ (status = X_ERROR_INSUFFICIENT_BUFFER <=> call.length < e.item_size)
       /\ SlotsWritten <= call.length \div e.item_size
       /\ \A i \in Touched(buffer) : i < call.length

\* A call off the quirk that filled its buffer while more items remained.
C19_Witness ==
  /\ OnEnumerator
  /\ call.length # e.items_per_enumerate
  /\ status = X_ERROR_SUCCESS
  /\ SlotsWritten = call.length \div e.item_size
  /\ e.current_item < e.item_count
  /\ call.length < e.items_per_enumerate

\* ---- C16 ----------------------------------------------------------------
\* C16: on the asynchronous path the completion of the overlapped request
\* always comes before the return of IO_PENDING: in no reachable state has a
\* caller received IO_PENDING while its request is still uncompleted.
C16_CompletionBeforeReturn ==
  \A t \in Threads :
    thr[t].ret = X_ERROR_IO_PENDING
      => /\ thr[t].overlapped.result # GuestPrior
         /\ thr[t].overlapped.extended_error # GuestPrior
         /\ thr[t].overlapped.length # GuestPrior

\* A thread has received IO_PENDING for a call that delivered items, while
\* the other thread is still inside its own call.
C16_Witness ==
  \E t \in Threads, u \in Threads :
    /\ t # u
    /\ thr[t].ret = X_ERROR_IO_PENDING
    /\ thr[t].overlapped.result = X_ERROR_SUCCESS
    /\ thr[t].overlapped.length >= 1
    /\ thr[u].pc \in {"check", "write", "advance", "deliver", "complete", "return"}

\* The lookup-failure path returns IO_PENDING after completing, too.
AsyncLookupFailureReturned ==
  \E t \in Threads :
    /\ thr[t].ret = X_ERROR_IO_PENDING
    /\ thr[t].overlapped.result = X_ERROR_INVALID_HANDLE

\* ---- C17 ----------------------------------------------------------------
\* The count a finished call reported to its caller.
Reported(t) ==
  IF thr[t].has_out THEN thr[t].items_returned ELSE thr[t].overlapped.length

\* The items in the slots a thread's call has written so far.
Delivered(t) ==
  ItemsIn(thr[t].buffer, e.item_size,
          Cardinality(Touched(thr[t].buffer)) \div e.item_size)

Finished(t) == thr[t].pc = "done"

\* The call got past the exhaustion test and reported SUCCESS.
Succeeded(t) ==
  /\ Finished(t)
  /\ LookupObject(thr[t].handle)
  /\ thr[t].result = X_ERROR_SUCCESS

\* C17: two guest threads calling XamEnumerate at the same time on one
\* enumerator behave as if the calls excluded each other.  Under every
\* interleaving the cursor never exceeds item_count; every item delivered is
\* one of items 1..item_count, delivered to one thread only and once; when
\* both calls are finished the counts they reported add up to the advance of
\* the cursor; and a call that got past the exhaustion test reports the
\* items produced for it, at least one as in any serial order.
C17_ConcurrentCallsExclusive ==
  /\ e.current_item <= e.item_count
  /\ \A t \in Threads :
       \A i \in 1..Len(Delivered(t)) :
         /\ Delivered(t)[i] \in 1..e.item_count
         /\ \A j \in 1..Len(Delivered(t)) : i # j => Delivered(t)[i] # Delivered(t)[j]
         /\ \A u \in Threads \ {t} :
              \A j \in 1..Len(Delivered(u)) : Delivered(t)[i] # Delivered(u)[j]
  /\ (\A t \in Threads : Finished(t) /\ LookupObject(thr[t].handle))
       => Reported("t1") + Reported("t2") = e.current_item
  /\ \A t \in Threads :
       Succeeded(t) => /\ Reported(t) = Len(Delivered(t))
                       /\ Reported(t) >= 1

\* Parts of C17 taken singly.
CursorWithinCountConcurrent == e.current_item <= e.item_count
NoItemDeliveredTwice ==
  \A t \in Threads, u \in Threads :
    \A i \in 1..Len(Delivered(t)), j \in 1..Len(Delivered(u)) :
      (t # u \/ i # j) => Delivered(t)[i] # Delivered(u)[j]
CountsAddUpToCursor ==
  (\A t \in Threads : Finished(t) /\ LookupObject(thr[t].handle))
    => Reported("t1") + Reported("t2") = e.current_item
SuccessDeliversAnItem ==
  \A t \in Threads : Succeeded(t) => Reported(t) >= 1

\* ---- C20 ----------------------------------------------------------------
\* The blocks XamGetOnlineSchema has allocated, and the addresses its calls
\* have returned.
SchemaAllocations == schema_thr["t1"].allocs + schema_thr["t2"].allocs
SchemaReturned == UNION {schema_thr[t].returned : t \in Threads}

\* C20: XamGetOnlineSchema allocates from the system heap at most once over
\* any sequence or interleaving of calls, two threads making the first call
\* at the same time included, and every call returns the same non-zero
\* address.
C20_SchemaAllocatedOnce ==
  /\ SchemaAllocations <= 1
  /\ 0 \notin SchemaReturned
  /\ Cardinality(SchemaReturned) <= 1

\* Parts of C20 taken singly.
SchemaAtMostOneAllocation == SchemaAllocations <= 1
SchemaNeverReturnsZero == 0 \notin SchemaReturned
SchemaOneAddress == Cardinality(SchemaReturned \ {0}) <= 1

\* Calls by one thread with the heap to itself: one block, one address.
SchemaAloneOnce ==
  /\ C20_SchemaAllocatedOnce
  /\ schema_thr["t1"].returned # {} => schema_thr["t1"].returned = schema_thr["t1"].filled
SchemaAloneReturned ==
  schema_thr["t1"].returned # {} /\ schema_thr["t1"].pc = "return"

====
